---- MODULE Spec2Model ----
(***************************************************************************)
(* Model of the Sentient Knowledge Engine (src/simple_renamer.ts): the     *)
(* per-file pipeline of SystemCore.processEntity, the backup/rename        *)
(* protocol of LifecycleManager.rename, the append-only OperationalJournal *)
(* and the cycle loop of SystemCore.activate / runSingleCycle.             *)
(*                                                                         *)
(* A file name is the sequence of the underscore-delimited segments of its *)
(* base name (the ".pdf" extension is implicit): "Foo_Bar_2020.pdf" is     *)
(* <<"Foo", "Bar", "2020">>.  A path is a record [dir, name, bak]; bak     *)
(* marks the ".ske.bak" suffix.  The disk is a function from the existing  *)
(* paths to the document (content) stored there.                           *)
(*                                                                         *)
(* Every await of the source is a scheduling point: the actions below are  *)
(* the segments between awaits, so two file tasks interleave exactly where *)
(* the event loop can interleave them.  Filesystem primitives either take  *)
(* effect or throw (a missing file, or an I/O error of the environment).   *)
(* Journal appends are taken to succeed.                                   *)
(***************************************************************************)
EXTENDS Integers, Sequences, FiniteSets, TLC

NULL == "null"

\* ---------------------------------------------------------------- bounds
\* Cycles explored per activation (the program's own cap is maxCycles).
MaxCycles == 2

\* generateContent calls explored per run of the cognition engine (the
\* program has no cap of its own on them).
MaxCalls == 8

\* Lines of the journal file explored by the replay on its own.
MaxJournal == 3

\* ------------------------------------------------------ program constants
maxCycles == 50
concurrencyLimit == 5
minTextLength == 100
\* Confidence is kept in tenths: 0.7 is 7.
ConfidenceThreshold == 7
maxFilenameLength == 120

\* Math.max(20, SAFE_MAX - fixedLength - 5)
MinTitleBudget == 20

SafetyMargin == 5

maxRetriesPerModel == 6
INITIAL_BACKOFF_SEC == 120
MAX_BACKOFF_SEC == 600

Root == "root"
Sub == "sub"

\* ------------------------------------------------------------- file names
\* A 45-letter word: one PascalCase sub-word longer than MAX_WORD_LENGTH (30).
LongWord == "Pneumonoultramicroscopicsilicovolcanoconiosis"

IsDigits4(seg) == seg \in {"2020", "2012"}

IsDigits2Plus(seg) == seg \in {"01", "03", "2020", "2012"}

\* /^(\d{2,}_)?[^_]+_[^_]+_\d{4}(_[^_]+)*\.pdf$/i on the segments of a name:
\* no segment holds an underscore, so the year is the third segment, or the
\* fourth one after a leading enumeration of two or more digits.
processedFormatRegex(name) ==
    \/ Len(name) >= 3 /\ IsDigits4(name[3])
    \/ Len(name) >= 4 /\ IsDigits2Plus(name[1]) /\ IsDigits4(name[4])

\* A segment of 16 or more characters holding a sub-word of more than 30.
hasAbnormallyLongWord(name) ==
    \E i \in 1..Len(name) : name[i] = LongWord

toLowerCaseSeg(seg) ==
    CASE seg = "Foo" -> "foo"
      [] seg = "Bar" -> "bar"
      [] seg = "Doc1" -> "doc1"
      [] seg = LongWord -> "pneumonoultramicroscopicsilicovolcanoconiosis"
      [] OTHER -> seg

toLowerCase(name) == [i \in 1..Len(name) |-> toLowerCaseSeg(name[i])]

\* FileEntity.detectFileType: a structural prefix, else a chapter token.
detectFileType(name) ==
    IF Len(name) >= 1 /\ toLowerCaseSeg(name[1]) \in {"toc", "index", "preface"}
    THEN [isStructural |-> TRUE, isChapter |-> FALSE, enumeration |-> NULL]
    ELSE IF \E i \in 1..Len(name) : name[i] = "ch3"
         THEN [isStructural |-> FALSE, isChapter |-> TRUE, enumeration |-> "3"]
         ELSE [isStructural |-> FALSE, isChapter |-> FALSE, enumeration |-> NULL]

\* ------------------------------------------------------------------ paths
Path(dir, name) == [dir |-> dir, name |-> name, bak |-> FALSE]

\* `${entity.fullPath}${CONFIG.processing.backupExtension}`
backupPath(p) == [p EXCEPT !.bak = TRUE]

\* path.join(path.dirname(entity.fullPath), newName)
newPathOf(p, newName) == Path(p.dir, newName)

\* path.resolve(this.directory, entry.file): the recorded base name, in the
\* scan root.
resolve(file) == Path(Root, file)

\* findAllPaths: every file below the root whose name ends in ".pdf".
findAllPaths(d) == {p \in DOMAIN d : ~p.bak}

\* ------------------------------------------------------------- filesystem
Remove(d, p) == [q \in DOMAIN d \ {p} |-> d[q]]

Put(d, p, doc) == [q \in DOMAIN d \cup {p} |-> IF q = p THEN doc ELSE d[q]]

\* A copy that writes nothing: the rename protocol without its backup.
copyFile_Noop(d, src, dst) == d

\* fs.copyFile(src, dst): dst is created or overwritten.
copyFile(d, src, dst) == Put(d, dst, d[src])

\* fs.rename(src, dst): an existing dst is replaced.
rename(d, src, dst) == IF src = dst THEN d ELSE Remove(Put(d, dst, d[src]), src)

\* fs.unlink(p)
unlink(d, p) == Remove(d, p)

\* The steps with the backup deleted before the rename.
RenameSteps_UnlinkFirst == <<"access", "copyFile", "unlink", "rename", "accessNew">>

\* The five filesystem steps of LifecycleManager.rename, in program order.
RenameSteps == <<"access", "copyFile", "rename", "unlink", "accessNew">>

\* Whether a step finds the file it needs (otherwise it throws ENOENT).
StepCan(step, d, src, dst, bak) ==
    CASE step = "access" -> src \in DOMAIN d
      [] step = "copyFile" -> src \in DOMAIN d
      [] step = "rename" -> src \in DOMAIN d
      [] step = "unlink" -> bak \in DOMAIN d
      [] step = "accessNew" -> dst \in DOMAIN d

\* The disk after a step that succeeded.
StepEffect(step, d, src, dst, bak) ==
    CASE step = "copyFile" -> copyFile(d, src, bak)
      [] step = "rename" -> rename(d, src, dst)
      [] step = "unlink" -> unlink(d, bak)
      [] OTHER -> d

\* ---------------------------------------------------------------- journal
\* An absent or empty newName, and the path of no entity.
NoName == <<>>

NoPath == [dir |-> "none", name |-> NoName, bak |-> FALSE]

Statuses == {"SUCCESS", "FAILURE_PARSE", "FAILURE_AI", "FAILURE_RENAME",
             "SKIPPED_NO_CHANGE", "SKIPPED_LOW_CONF", "PROCESSED"}

\* A JournalEntry {file, status, newName?}.  by (the full path of the entity
\* whose task wrote the entry), cyc (the cycle it was written in) and doc (the
\* content a SUCCESS moved) are bookkeeping of the model: the program neither
\* writes nor reads them.
Entry(file, status, newName, by, cyc, doc) ==
    [file |-> file, status |-> status, newName |-> newName,
     by |-> by, cyc |-> cyc, doc |-> doc]

\* An entry found in the journal file when the activation starts.
OldEntry(file, status, newName) == Entry(file, status, newName, NoPath, 0, NULL)

\* OperationalJournal.record: one appended line.
record(j, e) == Append(j, e)

\* A replay in which the oldest entry of a path is kept.
RECURSIVE replay_OldestWins(_, _, _)
replay_OldestWins(entries, i, memory) ==
    IF i = 0 THEN memory
    ELSE replay_OldestWins(entries, i - 1,
                           (resolve(entries[i].file) :> entries[i]) @@ memory)

\* SystemCore.loadJournalMemory: the entries are walked from the newest to the
\* oldest and the first entry seen for a resolved path is kept.
RECURSIVE replay(_, _, _)
replay(entries, i, memory) ==
    IF i = 0 THEN memory
    ELSE LET absolutePath == resolve(entries[i].file)
         IN  replay(entries, i - 1,
                    IF absolutePath \in DOMAIN memory
                    THEN memory
                    ELSE (absolutePath :> entries[i]) @@ memory)

loadJournalMemory(entries) == replay(entries, Len(entries), <<>>)

\* The undefined that journalMemory.get returns for a path with no entry.
NoEntry == Entry(NoName, "NONE", NoName, NoPath, 0, NULL)

\* journalMemory.get(entity.fullPath)
previousAttempt(memory, p) == IF p \in DOMAIN memory THEN memory[p] ELSE NoEntry

\* -------------------------------------------------------------- classifier
AlreadyDone(recordsSkip) == [kind |-> "ALREADY_DONE", newName |-> NoName, recorded |-> recordsSkip]

Recover(newName) == [kind |-> "RECOVER", newName |-> newName, recorded |-> FALSE]

NeedsAnalysis == [kind |-> "NEEDS_ANALYSIS", newName |-> NoName, recorded |-> FALSE]

\* The classifier without its recovery branch.
classify_NoRecover(name, prev) ==
    IF processedFormatRegex(name) /\ ~hasAbnormallyLongWord(name) THEN AlreadyDone(TRUE)
    ELSE IF prev.status = "SUCCESS" THEN AlreadyDone(FALSE)
    ELSE NeedsAnalysis

\* The classifier without its journaled-SUCCESS branch.
classify_NoSuccessSkip(name, prev) ==
    IF processedFormatRegex(name) /\ ~hasAbnormallyLongWord(name) THEN AlreadyDone(TRUE)
    ELSE IF prev.status = "FAILURE_RENAME" /\ prev.newName # NoName
         THEN Recover(prev.newName)
    ELSE NeedsAnalysis

\* A classifier that consults the journal before the name.
classify_HistoryFirst(name, prev) ==
    IF prev.status = "SUCCESS" THEN AlreadyDone(FALSE)
    ELSE IF prev.status = "FAILURE_RENAME" /\ prev.newName # NoName
         THEN Recover(prev.newName)
    ELSE IF processedFormatRegex(name) /\ ~hasAbnormallyLongWord(name) THEN AlreadyDone(TRUE)
    ELSE NeedsAnalysis

\* The decision at the head of SystemCore.processEntity; prev is
\* journalMemory.get(entity.fullPath), NoEntry when undefined.
classify(name, prev) ==
    IF processedFormatRegex(name) /\ ~hasAbnormallyLongWord(name) THEN AlreadyDone(TRUE)
    ELSE IF prev.status = "SUCCESS" THEN AlreadyDone(FALSE)
    ELSE IF prev.status = "FAILURE_RENAME" /\ prev.newName # NoName
         THEN Recover(prev.newName)
    ELSE NeedsAnalysis

\* --------------------------------------------------------------- formatter
\* formatText on the words of the model: stop words dropped and PascalCase
\* for a title; accents mapped and whitespace, commas and periods turned
\* into hyphens for an author.
formatText(input, mode) ==
    IF mode = "title"
    THEN CASE input = "the foo" -> "Foo"
           [] OTHER -> input
    ELSE CASE input = "A. Bar" -> "A-Bar"
           [] OTHER -> input

formatAuthors(authors) ==
    IF Len(authors) = 0 THEN ""
    ELSE IF Len(authors) = 1 THEN formatText(authors[1], "author")
    ELSE formatText(authors[1], "author") \o "-EtAl"

\* The non-empty parts, in order.
RECURSIVE filterBoolean(_)
filterBoolean(parts) ==
    IF parts = <<>> THEN <<>>
    ELSE IF Head(parts) = "" THEN filterBoolean(Tail(parts))
    ELSE <<Head(parts)>> \o filterBoolean(Tail(parts))

Str(v) == IF v = NULL THEN "" ELSE v

Null == [null |-> TRUE, parts |-> <<>>]

Joined(parts) == [null |-> FALSE, parts |-> parts]

\* SystemCore.formatBaseFilename: the sequence of the parts it joins with
\* underscores, or Null.  Every word of the model is shorter than the
\* smallest title budget (20), so no truncation applies.
formatBaseFilename(data, typeInfo) ==
    LET authorsStr == formatAuthors(data.authors)
        yearStr == Str(data.year)
        journalStr == IF data.journal # NULL THEN "J-" \o formatText(data.journal, "title") ELSE ""
        volumeStr == IF data.volume # NULL THEN "V" \o formatText(data.volume, "author") ELSE ""
        fileTypeStr == IF data.fileType # NULL THEN formatText(data.fileType, "title") ELSE ""
        enumStr == IF typeInfo.isChapter /\ typeInfo.enumeration # NULL
                   THEN "0" \o typeInfo.enumeration ELSE ""
        finalTitle == IF data.title # NULL THEN formatText(data.title, "title") ELSE ""
    IN  IF data.documentType = "article"
        THEN IF finalTitle = "" \/ authorsStr = "" \/ yearStr = "" THEN Null
             ELSE Joined(filterBoolean(<<finalTitle, authorsStr, yearStr, journalStr, volumeStr>>))
        ELSE IF finalTitle = "" /\ ~typeInfo.isStructural THEN Null
             ELSE IF data.year # NULL /\ ~IsDigits4(data.year) THEN Null
             ELSE Joined(filterBoolean(<<enumStr, finalTitle, authorsStr, yearStr, fileTypeStr>>))

\* ------------------------------------------------ formatter: the lengths
\* formatBaseFilename seen by the lengths of its strings.  w gives, for
\* each field of the analysis and for the chapter enumeration, the length of
\* the formatted text (0: the field is absent); a year of four characters
\* is a year of four digits.
Max(a, b) == IF a > b THEN a ELSE b

Min(a, b) == IF a < b THEN a ELSE b

\* A part of the name: the field it comes from, the characters of it that
\* the name holds, the characters the formatted field has, and whether the
\* name holds the underscore that joins it to the part before.
Part(field, length) == [field |-> field, length |-> length, full |-> length, sep |-> 1]

\* parts.filter(Boolean)
RECURSIVE nonEmpty(_)
nonEmpty(parts) ==
    IF parts = <<>> THEN <<>>
    ELSE IF Head(parts).length = 0 THEN nonEmpty(Tail(parts))
    ELSE <<Head(parts)>> \o nonEmpty(Tail(parts))

RECURSIVE sumLength(_)
sumLength(parts) ==
    IF parts = <<>> THEN 0 ELSE Head(parts).length + sumLength(Tail(parts))

RECURSIVE sumSep(_)
sumSep(parts) ==
    IF parts = <<>> THEN 0 ELSE Head(parts).sep + sumSep(Tail(parts))

\* parts.join('_').length
joinedLength(parts) ==
    IF parts = <<>> THEN 0 ELSE sumLength(parts) + sumSep(Tail(parts))

authorsStr(w) == Part("authors", w.authors)

yearStr(w) == Part("year", w.year)

\* `J-${formatText(journal, 'title')}`
journalStr(w) == Part("journal", IF w.journal > 0 THEN 2 + w.journal ELSE 0)

\* `V${formatText(volume, 'author')}`
volumeStr(w) == Part("volume", IF w.volume > 0 THEN 1 + w.volume ELSE 0)

fileTypeStr(w) == Part("fileType", w.fileType)

enumStr(w) == Part("enumeration", w.enumeration)

fixedParts(w) ==
    nonEmpty(<<authorsStr(w), yearStr(w), journalStr(w), volumeStr(w),
               fileTypeStr(w), enumStr(w)>>)

fixedLength(w) == sumLength(fixedParts(w)) + Len(fixedParts(w))

titleBudget(w) == Max(MinTitleBudget, maxFilenameLength - fixedLength(w) - SafetyMargin)

\* The formatted title, cut to the budget.
finalTitle(w) ==
    [Part("title", Min(w.title, titleBudget(w))) EXCEPT !.full = w.title]

\* The parts the switch on documentType assembles, or Null.
finalParts(w) ==
    IF w.documentType = "article"
    THEN IF finalTitle(w).length = 0 \/ w.authors = 0 \/ w.year = 0 THEN Null
         ELSE Joined(nonEmpty(<<finalTitle(w), authorsStr(w), yearStr(w),
                                journalStr(w), volumeStr(w)>>))
    ELSE IF finalTitle(w).length = 0 /\ ~w.isStructural THEN Null
         ELSE IF w.year > 0 /\ w.year # 4 THEN Null
         ELSE Joined(nonEmpty(<<enumStr(w), finalTitle(w), authorsStr(w),
                                yearStr(w), fileTypeStr(w)>>))

\* A formatter without its last cut.
substring_Whole(parts, room, first) == parts

\* parts.join('_').substring(0, room), part by part: of a part after the
\* first the underscore goes in if there is room for it, then as many
\* characters of the part as there is room for.
RECURSIVE substring(_, _, _)
substring(parts, room, first) ==
    IF parts = <<>> THEN <<>>
    ELSE LET sep == IF first THEN 0 ELSE Min(1, Max(0, room))
             kept == Max(0, Min(Head(parts).length, room - sep))
         IN  <<[Head(parts) EXCEPT !.length = kept, !.sep = IF first THEN 1 ELSE sep]>>
                 \o substring(Tail(parts), room - sep - kept, FALSE)

\* result.length > SAFE_MAX ? result.substring(0, SAFE_MAX) : result
budgetedName(w) ==
    LET assembled == finalParts(w)
    IN  IF assembled.null THEN Null
        ELSE IF joinedLength(assembled.parts) > maxFilenameLength
             THEN Joined(substring(assembled.parts, maxFilenameLength, TRUE))
             ELSE assembled

ValidatedData(documentType, title, authors, year, confidence) ==
    [documentType |-> documentType, title |-> title, authors |-> authors,
     year |-> year, confidence |-> confidence,
     journal |-> NULL, volume |-> NULL, fileType |-> NULL]

\* The ValidatedData that AI_CognitionEngine.analyze can hand back: a book
\* with a title only, a complete book, the same with low confidence, a book
\* without a title, a complete article.
ValidatedDatas ==
    { ValidatedData("book", "the foo", <<>>, NULL, 9),
      ValidatedData("book", "the foo", <<"Bar">>, "2020", 9),
      ValidatedData("book", "the foo", <<"Bar">>, "2020", 5),
      ValidatedData("book", NULL, <<"Bar">>, "2020", 9),
      ValidatedData("article", "the foo", <<"Bar">>, "2020", 9) }

\* FileEntity.readContent: null, or the extracted text (its length).
Contents == [isNull : {TRUE}, length : {0}] \cup [isNull : {FALSE}, length : {0, 99, 100}]

\* ------------------------------------------------------------------ state
VARIABLES
    liveMode,        \* the --live flag of the activation
    phase,           \* where SystemCore.activate stands
    cycle,           \* activate's cycle counter; 1 for the single dry-run pass
    disk,            \* existing path -> document
    disk0,           \* the disk when the activation started (never changed)
    journal,         \* the lines of ske_journal.jsonl
    journal0,        \* how many lines the journal held when the activation started
    previousLength,  \* runSingleCycle: journalBefore.length
    journalMemory,   \* runSingleCycle: the map loadJournalMemory built
    task,            \* runSingleCycle: one task per scanned entity
    manifest,        \* runSingleCycle: the planned renames of a dry run
    manifestShown,   \* the operational manifest was printed
    outcome,         \* what the last runSingleCycle returned
    apiKeys,         \* AI_CognitionEngine.API_KEYS.length
    currentKeyIndex, \* AI_CognitionEngine.currentKeyIndex, shared by every analyze
    analysis,        \* the analyze invocations in flight, by caller
    apiCalls,        \* how many generateContent calls were issued
    probe,           \* one classification on its own: its inputs and its result
    formatted,       \* one call of formatBaseFilename: its arguments and its result
    budget,          \* one call of formatBaseFilename seen by the lengths of the fields
    startup          \* the process: whether its target directory exists, its exit code

vars == <<liveMode, phase, cycle, disk, disk0, journal, journal0,
          previousLength, journalMemory, task, manifest, manifestShown,
          outcome, apiKeys, currentKeyIndex, analysis, apiCalls, probe,
          formatted, budget, startup>>

\* The variables of the cycle loop, of the cognition engine, of the probe.
coreVars == <<liveMode, phase, cycle, disk, disk0, journal, journal0,
              previousLength, journalMemory, task, manifest, manifestShown,
              outcome>>

engineVars == <<apiKeys, currentKeyIndex, analysis, apiCalls>>

Doc1 == <<"doc1">>
Foo == <<"Foo">>
FooBar2020 == <<"Foo", "Bar", "2020">>
LongBar2020 == <<LongWord, "Bar", "2020">>

\* Libraries the activation can find: an unprocessed file beside one that
\* carries a name the formatter produces, beside a processed one, beside a
\* file of the same name in a subdirectory; a processed-looking name with a
\* glued word, once with a journal that reports it renamed (the file was put
\* back since); no file at all.
DiskFoo == (Path(Root, Doc1) :> "d1") @@ (Path(Root, Foo) :> "d2")

DiskProcessed == (Path(Root, Doc1) :> "d1") @@ (Path(Root, FooBar2020) :> "d2")

DiskSub == (Path(Root, Doc1) :> "d1") @@ (Path(Sub, Doc1) :> "d2")

DiskGlued == (Path(Root, LongBar2020) :> "d1")

DiskEmpty == <<>>

\* The library and the journal file an activation can find.  The journal is
\* read as it is found: any line of the JournalEntry shape counts.
InitFiles ==
    { <<DiskFoo, <<>>>>,
      <<DiskFoo, <<OldEntry(Doc1, "FAILURE_RENAME", FooBar2020)>>>>,
      <<DiskFoo, <<OldEntry(Doc1, "SUCCESS", Foo)>>>>,
      <<DiskFoo, <<OldEntry(Doc1, "FAILURE_RENAME", Foo), OldEntry(Doc1, "FAILURE_AI", NoName)>>>>,
      <<DiskProcessed, <<>>>>,
      <<DiskSub, <<OldEntry(Doc1, "FAILURE_RENAME", FooBar2020)>>>>,
      <<DiskGlued, <<>>>>,
      <<DiskGlued, <<OldEntry(LongBar2020, "FAILURE_RENAME", FooBar2020)>>>>,
      <<DiskGlued, <<OldEntry(LongBar2020, "SUCCESS", FooBar2020)>>>>,
      <<DiskEmpty, <<>>>> }

NoOutcome == [hasFailures |-> FALSE, shouldContinue |-> FALSE]

\* The analyze invocations that can be in flight together (the limiter runs
\* up to getConcurrency tasks; two are enough to share the cursor).
Callers == {"a", "b"}

\* An analyze invocation: pc is where it stands, model the index in
\* CONFIG.ai.models of the model it is trying, cycleCount and
\* startIndexForCycle its two locals, key the index of the apiKey its call in
\* flight was issued with, wait the backoff base it is sleeping for.  The
\* other fields are bookkeeping of the model: fullLoops counts the full
\* rotations this invocation detected for the current model; clean says that
\* the cursor only moved by rotation since startIndexForCycle was set;
\* tried counts the calls this invocation issued since then; loopSeen says
\* that, since then, a rotation brought the cursor back to
\* startIndexForCycle; afterLoop that the call in flight was issued with
\* loopSeen set and after at least as many calls of its own as there are
\* keys; before and after are the cursor just before and just after
\* the step that received the successful response; failed holds the indices
\* of the keys whose calls failed for this invocation since
\* startIndexForCycle was set; last is the response handled last.
NotStarted ==
    [pc |-> "idle", model |-> 0, cycleCount |-> 0, startIndexForCycle |-> 0,
     key |-> 0, wait |-> 0, result |-> "none", fullLoops |-> 0, clean |-> TRUE,
     tried |-> 0, loopSeen |-> FALSE, afterLoop |-> FALSE, before |-> -1, after |-> -1,
     failed |-> {}, last |-> "none"]

\* No decision taken yet.
Unclassified == [kind |-> "NONE", newName |-> NoName, recorded |-> FALSE]

\* No classification probed.
NoProbe == [name |-> NoName, status |-> "NONE", newName |-> NoName, result |-> Unclassified]

\* No call of the formatter.
NoFormat ==
    [data |-> ValidatedData("none", NULL, <<>>, NULL, 0),
     typeInfo |-> [isStructural |-> FALSE, isChapter |-> FALSE, enumeration |-> NULL],
     pc |-> "idle", baseName |-> Null, looksProcessed |-> FALSE]

\* No call of the formatter measured.
NoBudget ==
    [documentType |-> "none", title |-> 0, authors |-> 0, year |-> 0, journal |-> 0,
     volume |-> 0, fileType |-> 0, enumeration |-> 0, isStructural |-> FALSE,
     pc |-> "idle", result |-> Null]

\* A process whose target directory exists and which is still running
\* (exitCode -1).
Validated == [directoryExists |-> TRUE, exitCode |-> -1]

\* The cognition engine, the probe and the formatter at rest.
EngineIdle ==
    /\ apiKeys = 1
    /\ currentKeyIndex = 0
    /\ analysis = [a \in Callers |-> NotStarted]
    /\ apiCalls = 0
    /\ probe = NoProbe
    /\ formatted = NoFormat
    /\ budget = NoBudget
    /\ startup = Validated

Init ==
    /\ liveMode \in BOOLEAN
    /\ phase = "ready"
    /\ cycle = 0
    /\ \E f \in InitFiles : disk = f[1] /\ journal = f[2]
    /\ disk0 = disk
    /\ journal0 = Len(journal)
    /\ previousLength = 0
    /\ journalMemory = <<>>
    /\ task = <<>>
    /\ manifest = {}
    /\ manifestShown = FALSE
    /\ outcome = NoOutcome
    /\ EngineIdle

\* ------------------------------------------------------------------ tasks
\* The task of one entity before the limiter runs it.  doc (the document
\* found at the entity's path by the scan), saved (the content the backup
\* copy took), moved (the content the rename moved), reads, aiCalls,
\* confidence (ten times the confidence of the analysis, -1 before it) and
\* threw (the pipeline ended in the task's catch block) are bookkeeping of the
\* model.
Queued ==
    [pc |-> "queued", to |-> NoName, steps |-> <<>>, failed |-> FALSE,
     doc |-> NULL, saved |-> NULL, moved |-> NULL, reads |-> 0, aiCalls |-> 0,
     confidence |-> -1, threw |-> FALSE]

Entities == DOMAIN task

\* pLimit(this.strategyEngine.getConcurrency()): tasks that hold a slot.
Active == {p \in Entities : task[p].pc \notin {"queued", "done"}}

getConcurrency == concurrencyLimit

Running == phase = "running"

\* A task that renames in either mode.
executesRename_Always(isDryRun) == TRUE

\* runSingleCycle's task: a dry run only collects the result, a live run
\* renames at once.
executesRename(isDryRun) == ~isDryRun

\* What the task does with a non-null result of processEntity; t is the
\* task table with the pipeline's own bookkeeping applied.
Dispatch(t, p, newName) ==
    IF executesRename(~liveMode)
    THEN /\ task' = [t EXCEPT ![p].pc = "renaming", ![p].to = newName]
         /\ UNCHANGED manifest
    ELSE /\ task' = [t EXCEPT ![p].pc = "done", ![p].to = newName]
         /\ manifest' = manifest \cup {<<p, newName>>}

Finish(p, status) ==
    /\ journal' = record(journal, Entry(p.name, status, NoName, p, cycle, NULL))
    /\ UNCHANGED manifest

\* processEntity up to its first read: the classification.
Classify(p) ==
    /\ Running
    /\ p \in Entities
    /\ task[p].pc = "queued"
    /\ Cardinality(Active) < getConcurrency
    /\ LET c == classify(p.name, previousAttempt(journalMemory, p))
       IN  CASE c.kind = "ALREADY_DONE" /\ c.recorded ->
                  /\ task' = [task EXCEPT ![p].pc = "done"]
                  /\ Finish(p, "PROCESSED")
             [] c.kind = "ALREADY_DONE" /\ ~c.recorded ->
                  /\ task' = [task EXCEPT ![p].pc = "done"]
                  /\ UNCHANGED <<journal, manifest>>
             [] c.kind = "RECOVER" ->
                  /\ Dispatch(task, p, c.newName)
                  /\ UNCHANGED journal
             [] OTHER ->
                  /\ task' = [task EXCEPT ![p].pc = "reading"]
                  /\ UNCHANGED <<journal, manifest>>
    /\ UNCHANGED <<liveMode, phase, cycle, disk, disk0, journal0,
                   previousLength, journalMemory, manifestShown, outcome>>

\* entity.readContent() returned.
ReadContent(p) ==
    /\ Running
    /\ p \in Entities
    /\ task[p].pc = "reading"
    /\ \E content \in Contents :
         IF content.isNull \/ content.length = 0 \/ content.length < minTextLength
         THEN /\ task' = [task EXCEPT ![p].pc = "done", ![p].reads = 1]
              /\ Finish(p, "FAILURE_PARSE")
         ELSE /\ task' = [task EXCEPT ![p].pc = "analyzing", ![p].reads = 1]
              /\ UNCHANGED <<journal, manifest>>
    /\ UNCHANGED <<liveMode, phase, cycle, disk, disk0, journal0,
                   previousLength, journalMemory, manifestShown, outcome>>

\* cognitionEngine.analyze() returned null: every model failed.
AnalyzeFailed(p) ==
    /\ Running
    /\ p \in Entities
    /\ task[p].pc = "analyzing"
    /\ task' = [task EXCEPT ![p].pc = "done", ![p].aiCalls = 1]
    /\ Finish(p, "FAILURE_AI")
    /\ UNCHANGED <<liveMode, phase, cycle, disk, disk0, journal0,
                   previousLength, journalMemory, manifestShown, outcome>>

\* A gate that lets every analysis through.
belowThreshold_Never(confidence) == FALSE

\* validatedData.confidence < 0.7, in tenths.
belowThreshold(confidence) == confidence < ConfidenceThreshold

\* cognitionEngine.analyze() returned data: the confidence gate, the
\* formatter and the comparison with the current name.
Analyzed(p) ==
    /\ Running
    /\ p \in Entities
    /\ task[p].pc = "analyzing"
    /\ \E validatedData \in ValidatedDatas :
         LET baseName == formatBaseFilename(validatedData, detectFileType(p.name))
             newName == baseName.parts
             called == [task EXCEPT ![p].aiCalls = 1,
                                    ![p].confidence = validatedData.confidence]
         IN  IF belowThreshold(validatedData.confidence)
             THEN /\ task' = [called EXCEPT ![p].pc = "done"]
                  /\ Finish(p, "SKIPPED_LOW_CONF")
             ELSE IF baseName.null \/ baseName.parts = <<>>
                     \/ toLowerCase(newName) = toLowerCase(p.name)
             THEN /\ task' = [called EXCEPT ![p].pc = "done"]
                  /\ Finish(p, "SKIPPED_NO_CHANGE")
             ELSE /\ Dispatch(called, p, newName)
                  /\ UNCHANGED journal
    /\ UNCHANGED <<liveMode, phase, cycle, disk, disk0, journal0,
                   previousLength, journalMemory, manifestShown, outcome>>

\* A catch block that records its entry twice.
onUnhandled_Twice(j, p) ==
    record(record(j, Entry(p.name, "FAILURE_AI", NoName, p, cycle, NULL)),
           Entry(p.name, "FAILURE_AI", NoName, p, cycle, NULL))

\* A catch block that records nothing.
onUnhandled_Silent(j, p) == j

\* The catch block of the task: one FAILURE_AI entry.
onUnhandled(j, p) == record(j, Entry(p.name, "FAILURE_AI", NoName, p, cycle, NULL))

\* The pipeline threw after the content was read: analyze threw, or it
\* returned data whose fields are not of the declared types, so that
\* confidence.toFixed, authors.join or the formatter threw.  The task's catch
\* block takes over; the file has no entry of this cycle yet.
ProcessThrew(p) ==
    /\ Running
    /\ p \in Entities
    /\ task[p].pc = "analyzing"
    /\ task' = [task EXCEPT ![p].pc = "done", ![p].aiCalls = 1, ![p].threw = TRUE]
    /\ journal' = onUnhandled(journal, p)
    /\ UNCHANGED <<liveMode, phase, cycle, disk, disk0, journal0,
                   previousLength, journalMemory, manifest, manifestShown, outcome>>

\* One filesystem step of LifecycleManager.rename returned or threw.  The
\* last step is followed by the SUCCESS entry, a throwing step by the catch
\* block's FAILURE_RENAME entry, which records no newName.
RenameStep(p) ==
    /\ Running
    /\ p \in Entities
    /\ task[p].pc = "renaming"
    /\ LET i == Len(task[p].steps) + 1
           step == RenameSteps[i]
           newPath == newPathOf(p, task[p].to)
           bak == backupPath(p)
       IN  \E ioError \in BOOLEAN :
             IF ~ioError /\ StepCan(step, disk, p, newPath, bak)
             THEN /\ disk' = StepEffect(step, disk, p, newPath, bak)
                  /\ task' = [task EXCEPT
                        ![p].steps = Append(@, step),
                        ![p].saved = IF step = "copyFile" THEN disk[p] ELSE @,
                        ![p].moved = IF step = "rename" THEN disk[p] ELSE @,
                        ![p].pc = IF i < Len(RenameSteps) THEN "renaming" ELSE "done"]
                  /\ journal' = IF i < Len(RenameSteps) THEN journal
                                ELSE record(journal,
                                       Entry(p.name, "SUCCESS", task[p].to, p, cycle,
                                             task[p].moved))
             ELSE /\ disk' = disk
                  /\ task' = [task EXCEPT ![p].steps = Append(@, step),
                                          ![p].failed = TRUE, ![p].pc = "done"]
                  /\ journal' = record(journal,
                                  Entry(p.name, "FAILURE_RENAME", NoName, p, cycle, NULL))
    /\ UNCHANGED <<liveMode, phase, cycle, disk0, journal0, previousLength,
                   journalMemory, manifest, manifestShown, outcome>>

\* ----------------------------------------------------------------- cycles
FailureStatuses == {"FAILURE_PARSE", "FAILURE_AI", "FAILURE_RENAME", "SKIPPED_LOW_CONF"}

GoodStatuses == {"PROCESSED", "SKIPPED_NO_CHANGE", "SUCCESS"}

\* journalAfter.slice(previousLength)
cycleEntries(j, from) == SubSeq(j, from + 1, Len(j))

\* A cycle judged by its journal entries alone.
cycleOutcome_IgnoresManifest(entries, planned) ==
    LET hasFailures == \E k \in 1..Len(entries) : entries[k].status \in FailureStatuses
        onlyGoodSkips == /\ Len(entries) > 0
                         /\ \A k \in 1..Len(entries) : entries[k].status \in GoodStatuses
    IN  IF onlyGoodSkips
        THEN [hasFailures |-> FALSE, shouldContinue |-> FALSE]
        ELSE [hasFailures |-> hasFailures, shouldContinue |-> TRUE]

\* The value runSingleCycle returns once every task has settled.
cycleOutcome(entries, planned) ==
    LET hasFailures == \E k \in 1..Len(entries) : entries[k].status \in FailureStatuses
        onlyGoodSkips == /\ Len(entries) > 0
                         /\ \A k \in 1..Len(entries) : entries[k].status \in GoodStatuses
    IN  IF planned = {} /\ onlyGoodSkips
        THEN [hasFailures |-> FALSE, shouldContinue |-> FALSE]
        ELSE [hasFailures |-> hasFailures, shouldContinue |-> TRUE]

\* A loop that never waits between two cycles.
afterCycle_NoCooldown(live, r, n) ==
    IF ~live THEN "introspect"
    ELSE IF ~r.shouldContinue THEN "introspect"
    ELSE IF n < maxCycles THEN "ready"
    ELSE "introspect"

\* A loop that goes on for as long as cycles ask to continue.
afterCycle_NoCap(live, r, n) ==
    IF ~live THEN "introspect"
    ELSE IF ~r.shouldContinue THEN "introspect"
    ELSE IF r.hasFailures THEN "cooldown"
    ELSE "ready"

\* Where activate goes when runSingleCycle has returned r.
afterCycle(live, r, n) ==
    IF ~live THEN "introspect"
    ELSE IF ~r.shouldContinue THEN "introspect"
    ELSE IF r.hasFailures THEN "cooldown"
    ELSE IF n < maxCycles THEN "ready"
    ELSE "introspect"

\* activate enters runSingleCycle: the journal is replayed, the directory
\* scanned and one task per entity handed to the limiter.  With no PDF the
\* cycle returns at once.
StartCycle ==
    /\ phase = "ready"
    /\ cycle < MaxCycles
    /\ cycle' = cycle + 1
    /\ previousLength' = Len(journal)
    /\ journalMemory' = loadJournalMemory(journal)
    /\ manifest' = {}
    /\ LET allPaths == findAllPaths(disk)
       IN  IF allPaths = {}
           THEN /\ task' = <<>>
                /\ outcome' = NoOutcome
                /\ phase' = afterCycle(liveMode, NoOutcome, cycle')
           ELSE /\ task' = [p \in allPaths |-> [Queued EXCEPT !.doc = disk[p]]]
                /\ outcome' = outcome
                /\ phase' = "running"
    /\ UNCHANGED <<liveMode, disk, disk0, journal, journal0,
                   manifestShown>>

\* Promise.all(tasks) resolved: the cycle's entries are judged, a dry run
\* prints its manifest, and activate decides how to go on.
EndCycle ==
    /\ Running
    /\ \A p \in Entities : task[p].pc = "done"
    /\ LET r == cycleOutcome(cycleEntries(journal, previousLength), manifest)
       IN  /\ outcome' = r
           /\ manifestShown' = (manifestShown \/ (r.shouldContinue /\ ~liveMode))
           /\ phase' = afterCycle(liveMode, r, cycle)
    /\ UNCHANGED <<liveMode, cycle, disk, disk0, journal, journal0,
                   previousLength, journalMemory, task, manifest>>

\* The delayMinutes timer between two cycles fired.
Cooldown ==
    /\ phase = "cooldown"
    /\ phase' = IF cycle < maxCycles THEN "ready" ELSE "introspect"
    /\ UNCHANGED <<liveMode, cycle, disk, disk0, journal, journal0,
                   previousLength, journalMemory, task, manifest, manifestShown,
                   outcome>>

\* The introspection phase and the attestation report: activate returns.
Deactivate ==
    /\ phase = "introspect"
    /\ phase' = "done"
    /\ UNCHANGED <<liveMode, cycle, disk, disk0, journal, journal0,
                   previousLength, journalMemory, task, manifest, manifestShown,
                   outcome>>

\* The cognition engine is abstracted, in these actions, by what analyze
\* returns (AnalyzeFailed, Analyzed); its own variables stay at rest.
EngineUnchanged ==
    UNCHANGED <<apiKeys, currentKeyIndex, analysis, apiCalls, probe, formatted, budget,
                startup>>

Next ==
    \/ StartCycle /\ EngineUnchanged
    \/ \E p \in Entities : Classify(p) /\ EngineUnchanged
    \/ \E p \in Entities : ReadContent(p) /\ EngineUnchanged
    \/ \E p \in Entities : AnalyzeFailed(p) /\ EngineUnchanged
    \/ \E p \in Entities : Analyzed(p) /\ EngineUnchanged
    \/ \E p \in Entities : ProcessThrew(p) /\ EngineUnchanged
    \/ \E p \in Entities : RenameStep(p) /\ EngineUnchanged
    \/ EndCycle /\ EngineUnchanged
    \/ Cooldown /\ EngineUnchanged
    \/ Deactivate /\ EngineUnchanged

Spec == Init /\ [][Next]_vars

\* ------------------------------------------- two files of one base name
\* The library holds doc1 in the scan root and doc1 in a subdirectory; the
\* journal is empty or holds a line of an earlier activation for doc1.
TwinFiles ==
    { <<DiskSub, <<>>>>,
      <<DiskSub, <<OldEntry(Doc1, "FAILURE_AI", NoName)>>>> }

InitTwins ==
    /\ liveMode \in BOOLEAN
    /\ phase = "ready"
    /\ cycle = 0
    /\ \E f \in TwinFiles : disk = f[1] /\ journal = f[2]
    /\ disk0 = disk
    /\ journal0 = Len(journal)
    /\ previousLength = 0
    /\ journalMemory = <<>>
    /\ task = <<>>
    /\ manifest = {}
    /\ manifestShown = FALSE
    /\ outcome = NoOutcome
    /\ EngineIdle

SpecTwins == InitTwins /\ [][Next]_vars

\* ------------------------------------------------------- the loop of activate
\* The values runSingleCycle can return.
Outcomes ==
    { [hasFailures |-> FALSE, shouldContinue |-> FALSE],
      [hasFailures |-> FALSE, shouldContinue |-> TRUE],
      [hasFailures |-> TRUE, shouldContinue |-> TRUE] }

\* One pass of activate's loop, the cycle seen only through the value
\* runSingleCycle returns.  phase = "ready" stands for a passed loop test;
\* the guard on cycle stops the exploration one cycle past maxCycles.
LoopCycle ==
    /\ phase = "ready"
    /\ cycle <= maxCycles
    /\ cycle' = cycle + 1
    /\ \E r \in Outcomes :
         /\ outcome' = r
         /\ phase' = afterCycle(liveMode, r, cycle')
    /\ UNCHANGED <<liveMode, disk, disk0, journal, journal0, previousLength,
                   journalMemory, task, manifest, manifestShown>>

InitLoop ==
    /\ liveMode \in BOOLEAN
    /\ phase = "ready"
    /\ cycle = 0
    /\ disk = DiskEmpty
    /\ disk0 = DiskEmpty
    /\ journal = <<>>
    /\ journal0 = 0
    /\ previousLength = 0
    /\ journalMemory = <<>>
    /\ task = <<>>
    /\ manifest = {}
    /\ manifestShown = FALSE
    /\ outcome = NoOutcome
    /\ EngineIdle

NextLoop ==
    \/ LoopCycle /\ EngineUnchanged
    \/ Cooldown /\ EngineUnchanged
    \/ Deactivate /\ EngineUnchanged

\* Every await of activate resolves: the cycle returns, the delay timer
\* fires, the learning step and the report finish.
SpecLoop == InitLoop /\ [][NextLoop]_vars /\ WF_vars(NextLoop)

\* The cycle loop at rest.
CoreIdle ==
    /\ liveMode = TRUE
    /\ phase = "ready"
    /\ cycle = 0
    /\ disk = DiskEmpty
    /\ disk0 = DiskEmpty
    /\ journal = <<>>
    /\ journal0 = 0
    /\ previousLength = 0
    /\ journalMemory = <<>>
    /\ task = <<>>
    /\ manifest = {}
    /\ manifestShown = FALSE
    /\ outcome = NoOutcome

\* ------------------------------------------------- the classifier on its own
\* File names the classifier can meet: unprocessed ones, processed-looking
\* ones with and without a leading enumeration or a trailing type, the same
\* with a glued word, a glued word alone.
ProbeNames ==
    { Doc1, Foo, FooBar2020, LongBar2020,
      <<"01", "Foo", "Bar", "2020">>,
      <<"Foo", "Bar", "2020", "Book">>,
      <<"03", LongWord, "Bar", "2012">>,
      <<LongWord>> }

\* What journalMemory.get can return: undefined, or an entry of any status
\* with or without a newName.
ProbeHistories ==
    {[status |-> "NONE", newName |-> NoName]}
        \cup [status : Statuses, newName : {NoName, Foo, FooBar2020}]

\* The entry of the probe as processEntity receives it.
probedAttempt ==
    IF probe.status = "NONE" THEN NoEntry
    ELSE OldEntry(probe.name, probe.status, probe.newName)

\* processEntity takes its decision for the probed file.
ClassifyProbe ==
    /\ probe.result = Unclassified
    /\ probe' = [probe EXCEPT !.result = classify(probe.name, probedAttempt)]
    /\ UNCHANGED coreVars
    /\ UNCHANGED engineVars
    /\ UNCHANGED <<formatted, budget, startup>>

InitClassify ==
    /\ CoreIdle
    /\ apiKeys = 1
    /\ currentKeyIndex = 0
    /\ analysis = [a \in Callers |-> NotStarted]
    /\ apiCalls = 0
    /\ formatted = NoFormat
    /\ budget = NoBudget
    /\ startup = Validated
    /\ \E name \in ProbeNames, h \in ProbeHistories :
         probe = [name |-> name, status |-> h.status, newName |-> h.newName,
                  result |-> Unclassified]

NextClassify == ClassifyProbe

SpecClassify == InitClassify /\ [][NextClassify]_vars

\* -------------------------------------------------- the formatter on its own
\* The analyses formatBaseFilename can be handed: each document type, with
\* and without a title, no author, one author or several, no year, a year of
\* four digits or one of two digits, with and without a journal, a volume
\* and a file type.
FormatDatas ==
    { [ValidatedData(documentType, title, authors, year, 9)
          EXCEPT !.journal = journalName, !.volume = volumeNo, !.fileType = fileType] :
        documentType \in {"book", "chapter", "article"},
        title \in {NULL, "the foo"},
        authors \in {<<>>, <<"Bar">>, <<"Bar", "Baz">>},
        year \in {NULL, "2020", "20"},
        journalName \in {NULL, "Nature"},
        volumeNo \in {NULL, "12"},
        fileType \in {NULL, "Book"} }

\* entity.typeInfo of a plain name, of a chapter and of a structural file.
FormatTypeInfos == {detectFileType(name) : name \in {Doc1, <<"ch3">>, <<"toc">>}}

\* processEntity calls this.formatBaseFilename(validatedData, entity.typeInfo).
Format ==
    /\ formatted.pc = "idle"
    /\ formatted' = [formatted EXCEPT
            !.pc = "formatted",
            !.baseName = formatBaseFilename(formatted.data, formatted.typeInfo)]
    /\ UNCHANGED coreVars
    /\ UNCHANGED engineVars
    /\ UNCHANGED <<probe, budget, startup>>

\* A later cycle meets the file under the name `${baseName}.pdf` and tests
\* it against processedFormatRegex.
Reclassify ==
    /\ formatted.pc = "formatted"
    /\ ~formatted.baseName.null
    /\ formatted.baseName.parts # <<>>
    /\ formatted' = [formatted EXCEPT
            !.pc = "classified",
            !.looksProcessed = processedFormatRegex(formatted.baseName.parts)]
    /\ UNCHANGED coreVars
    /\ UNCHANGED engineVars
    /\ UNCHANGED <<probe, budget, startup>>

InitFormat ==
    /\ CoreIdle
    /\ apiKeys = 1
    /\ currentKeyIndex = 0
    /\ analysis = [a \in Callers |-> NotStarted]
    /\ apiCalls = 0
    /\ probe = NoProbe
    /\ budget = NoBudget
    /\ startup = Validated
    /\ \E data \in FormatDatas, typeInfo \in FormatTypeInfos :
         formatted = [NoFormat EXCEPT !.data = data, !.typeInfo = typeInfo]

NextFormat == Format \/ Reclassify

SpecFormat == InitFormat /\ [][NextFormat]_vars

\* ------------------------------------------- the formatter's length budget
\* Lengths the formatted fields can have: absent, short, and long enough to
\* overflow the name alone or together.
BudgetInputs ==
    [documentType : {"book", "chapter", "article"},
     title : {0, 10, 130},
     authors : {0, 8, 110},
     year : {0, 4},
     journal : {0, 12, 70},
     volume : {0, 2},
     fileType : {0, 4},
     enumeration : {0, 2},
     isStructural : BOOLEAN,
     pc : {"idle"},
     result : {Null}]

\* formatBaseFilename returns.
Measure ==
    /\ budget.pc = "idle"
    /\ budget' = [budget EXCEPT !.pc = "done", !.result = budgetedName(budget)]
    /\ UNCHANGED coreVars
    /\ UNCHANGED engineVars
    /\ UNCHANGED <<probe, formatted, startup>>

InitBudget ==
    /\ CoreIdle
    /\ apiKeys = 1
    /\ currentKeyIndex = 0
    /\ analysis = [a \in Callers |-> NotStarted]
    /\ apiCalls = 0
    /\ probe = NoProbe
    /\ formatted = NoFormat
    /\ budget \in BudgetInputs
    /\ startup = Validated

NextBudget == Measure

SpecBudget == InitBudget /\ [][NextBudget]_vars

\* --------------------------------------------------------- cognition engine
\* CONFIG.ai.models, in the order analyze tries them.
models ==
    <<"gemini-flash-latest", "gemini-flash-lite-latest", "gemini-2.5-flash",
      "gemini-2.5-flash-lite", "qwen3:1.7b", "gemini-3-flash-preview">>

\* model.includes('qwen') || model.includes('llama') || model.includes('phi')
isLocalModel(model) == model = "qwen3:1.7b"

\* The sizes of the key pool explored: API_KEYS is what is left of five
\* environment variables.  An empty pool is left out (no call is ever made
\* with it).
PoolSizes == {1, 2, 3}

\* How a generateContent call can end: a response from which a JSON object
\* is parsed; an empty text; a text that does not parse; an error whose
\* message names a quota; another transient error (429, rate limit, 503,
\* unavailable); any other error.
Responses == {"ok", "empty", "badjson", "quota", "rate", "permanent"}

isQuotaError(response) == response = "quota"

\* Every failure taken as transient.
isTransient_All(response) == response # "ok"

isTransient(response) == isQuotaError(response) \/ response = "rate"

RECURSIVE pow2(_)
pow2(n) == IF n <= 0 THEN 1 ELSE 2 * pow2(n - 1)

\* Math.min(INITIAL_BACKOFF_SEC * Math.pow(2, cycleCount - 1), MAX_BACKOFF_SEC)
backoffBase(cycleCount) ==
    LET grown == INITIAL_BACKOFF_SEC * pow2(cycleCount - 1)
    IN  IF grown < MAX_BACKOFF_SEC THEN grown ELSE MAX_BACKOFF_SEC

\* A cursor that moves on to the next key after a success.
cursorAfterSuccess_Advance(k, n) == (k + 1) % n

\* The cursor after a successful call: analyze assigns startIndexForCycle
\* and leaves currentKeyIndex as it is.
cursorAfterSuccess(k, n) == k

\* A cursor that a transient error leaves where it is.
rotate_Stay(k, n) == k

\* (currentKeyIndex + 1) % API_KEYS.length
rotate(k, n) == (k + 1) % n

\* From the top of the while loop to the await of generateContent:
\* cycleCount++, the apiKey at the cursor is read, the call is issued.
issue(r, k) ==
    [r EXCEPT !.pc = "calling", !.cycleCount = @ + 1, !.key = k,
              !.tried = @ + 1,
              !.afterLoop = r.loopSeen /\ r.tried >= apiKeys]

\* A loop that gives up before its first model.
enter_GiveUp(r, m, k) == [r EXCEPT !.pc = "returned", !.model = m, !.result = "null"]

\* The for loop reaches model number m with the cursor at k: past the last
\* model analyze returns null; a local model is asked once; for a cloud model
\* the two locals are set and the first call is issued.
enter(r, m, k) ==
    IF m > Len(models)
    THEN [r EXCEPT !.pc = "returned", !.model = m, !.result = "null"]
    ELSE IF isLocalModel(models[m])
    THEN [r EXCEPT !.pc = "fetching", !.model = m, !.fullLoops = 0,
                   !.tried = 0, !.loopSeen = FALSE, !.afterLoop = FALSE,
                   !.failed = {}]
    ELSE issue([r EXCEPT !.model = m, !.cycleCount = 0,
                         !.startIndexForCycle = k, !.fullLoops = 0,
                         !.clean = TRUE, !.tried = 0, !.loopSeen = FALSE,
                         !.failed = {}], k)

\* The invocations other than a after the cursor moved to k by a rotation
\* and then (jumped) was, or was not, set to another index.
Others(a, k, jumped) ==
    [c \in Callers \ {a} |->
        LET r == analysis[c]
        IN  IF r.pc \notin {"calling", "backoff"} THEN r
            ELSE [r EXCEPT
                    !.loopSeen = @ \/ (r.clean /\ k = r.startIndexForCycle),
                    !.clean = @ /\ ~jumped]]

\* The engine steps to the invocation record r for a and the cursor k; a step
\* that issues a call counts it.
EngineStep(a, r, k, others) ==
    /\ r.pc = "calling" => apiCalls < MaxCalls
    /\ analysis' = [c \in Callers |-> IF c = a THEN r ELSE others[c]]
    /\ currentKeyIndex' = k
    /\ apiCalls' = IF r.pc = "calling" THEN apiCalls + 1 ELSE apiCalls
    /\ UNCHANGED <<apiKeys, probe, formatted, budget,
                startup>>
    /\ UNCHANGED coreVars

Untouched(a) == [c \in Callers \ {a} |-> analysis[c]]

\* processEntity calls analyze: up to the first await.
Begin(a) ==
    /\ analysis[a].pc = "idle"
    /\ EngineStep(a, enter(analysis[a], 1, currentKeyIndex), currentKeyIndex,
                  Untouched(a))

\* The fetch of the local endpoint returned or threw.
Fetched(a) ==
    /\ analysis[a].pc = "fetching"
    /\ \E parsed \in BOOLEAN :
         IF parsed
         THEN EngineStep(a, [analysis[a] EXCEPT !.pc = "returned", !.result = "data",
                                                !.last = "fetched"],
                         currentKeyIndex, Untouched(a))
         ELSE EngineStep(a, enter([analysis[a] EXCEPT !.last = "unfetched"],
                                  analysis[a].model + 1, currentKeyIndex),
                         currentKeyIndex, Untouched(a))

\* generateContent returned or threw: the try block after the await and the
\* catch block, up to the next await or to the return.
Responded(a) ==
    /\ analysis[a].pc = "calling"
    /\ \E response \in Responses :
         LET r == [analysis[a] EXCEPT
                     !.last = response,
                     !.failed = IF response = "ok" THEN @ ELSE @ \cup {analysis[a].key}]
             k == currentKeyIndex
             next == rotate(k, apiKeys)
         IN  IF response = "ok"
             THEN EngineStep(a, [r EXCEPT !.pc = "returned", !.result = "data",
                                          !.startIndexForCycle = k,
                                          !.before = k,
                                          !.after = cursorAfterSuccess(k, apiKeys)],
                             cursorAfterSuccess(k, apiKeys), Untouched(a))
             ELSE IF ~isTransient(response)
             THEN EngineStep(a, enter(r, r.model + 1, k), k, Untouched(a))
             ELSE IF next # r.startIndexForCycle
             THEN EngineStep(a, issue(r, next), next, Others(a, next, FALSE))
             ELSE IF isQuotaError(response)
             THEN EngineStep(a, enter(r, r.model + 1, 0), 0, Others(a, next, next # 0))
             ELSE EngineStep(a, [r EXCEPT !.pc = "backoff",
                                          !.wait = backoffBase(r.cycleCount),
                                          !.fullLoops = @ + 1],
                             next, Others(a, next, FALSE))

\* The backoff timer fired: the start of the cycle is reset and the loop
\* goes on with its next call.
BackoffOver(a) ==
    /\ analysis[a].pc = "backoff"
    /\ EngineStep(a, issue([analysis[a] EXCEPT
                              !.startIndexForCycle = currentKeyIndex,
                              !.wait = 0, !.clean = TRUE, !.tried = 0,
                              !.loopSeen = FALSE, !.failed = {}],
                           currentKeyIndex),
                  currentKeyIndex, Untouched(a))

\* The cognition engine on its own: a pool of keys, the shared cursor where
\* earlier invocations left it, and the invocations of one cycle.
InitEngine ==
    /\ CoreIdle
    /\ apiKeys \in PoolSizes
    /\ currentKeyIndex \in 0..(apiKeys - 1)
    /\ analysis = [a \in Callers |-> NotStarted]
    /\ apiCalls = 0
    /\ probe = NoProbe
    /\ formatted = NoFormat
    /\ budget = NoBudget
    /\ startup = Validated

NextEngine ==
    \/ \E a \in Callers : Begin(a)
    \/ \E a \in Callers : Fetched(a)
    \/ \E a \in Callers : Responded(a)
    \/ \E a \in Callers : BackoffOver(a)

SpecEngine == InitEngine /\ [][NextEngine]_vars

\* ------------------------------------------------------------ the process
\* The libraries the process is started on when its directory exists.
StartupFiles == { <<DiskFoo, <<>>>>, <<DiskGlued, <<>>>> }

\* How many of the five environment variables hold a key.
StartupPools == {0, 1}

\* SystemCore.selfValidate: fs.access on the directory decides alone; activate
\* returns at once when it fails.
SelfValidate ==
    /\ phase = "validating"
    /\ phase' = IF startup.directoryExists THEN "ready" ELSE "refused"
    /\ UNCHANGED <<liveMode, cycle, disk, disk0, journal, journal0,
                   previousLength, journalMemory, task, manifest, manifestShown,
                   outcome>>
    /\ UNCHANGED engineVars
    /\ UNCHANGED <<probe, formatted, budget, startup>>

\* activate has returned, main resolves and the process ends: nothing sets
\* an exit code.
ProcessExit ==
    /\ phase \in {"refused", "done"}
    /\ startup.exitCode = -1
    /\ startup' = [startup EXCEPT !.exitCode = 0]
    /\ UNCHANGED coreVars
    /\ UNCHANGED engineVars
    /\ UNCHANGED <<probe, formatted, budget>>

\* analyze was entered with an empty pool: API_KEYS[currentKeyIndex] is
\* undefined, the cursor becomes NaN, and the loop of the first (cloud) model
\* goes round without an await; no other step of the process runs any more.
Hung ==
    /\ apiKeys = 0
    /\ ~isLocalModel(models[1])
    /\ \E p \in Entities : task[p].pc = "analyzing"

\* The value of a remainder by zero.
NaN == -1

\* a % n on numbers: NaN for n = 0.
remainder(a, n) == IF n = 0 \/ a = NaN THEN NaN ELSE a % n

\* a === b on numbers: NaN equals nothing.
strictEquals(a, b) == a # NaN /\ b # NaN /\ a = b

\* `if (currentKeyIndex === startIndexForCycle) break; continue;` after the
\* rotation past an invalid key: whether the loop goes round again.
invalidKeyGoesOn(next, start) == ~strictEquals(next, start)

\* One iteration of the inner loop of analyze, for the first model, with an
\* empty pool: API_KEYS[currentKeyIndex] is undefined, the cursor is rotated
\* and compared with startIndexForCycle (the cursor at the entry of analyze,
\* 0 in this process), and the loop goes round without an await.  The break
\* that would take up the next model needs the comparison to hold.
KeyInvalid(p) ==
    /\ Hung
    /\ task[p].pc = "analyzing"
    /\ LET next == remainder(IF currentKeyIndex = NaN THEN NaN ELSE currentKeyIndex + 1, apiKeys)
       IN  /\ currentKeyIndex' = next
           /\ invalidKeyGoesOn(next, 0)
    /\ UNCHANGED <<liveMode, phase, cycle, disk, disk0, journal, journal0,
                   previousLength, journalMemory, task, manifest, manifestShown, outcome>>
    /\ UNCHANGED <<apiKeys, analysis, apiCalls, probe, formatted, budget, startup>>

InitStartup ==
    /\ liveMode \in BOOLEAN
    /\ phase = "validating"
    /\ cycle = 0
    /\ \E exists \in BOOLEAN :
         /\ startup = [directoryExists |-> exists, exitCode |-> -1]
         /\ IF exists
            THEN \E f \in StartupFiles : disk = f[1] /\ journal = f[2]
            ELSE disk = DiskEmpty /\ journal = <<>>
    /\ disk0 = disk
    /\ journal0 = Len(journal)
    /\ previousLength = 0
    /\ journalMemory = <<>>
    /\ task = <<>>
    /\ manifest = {}
    /\ manifestShown = FALSE
    /\ outcome = NoOutcome
    /\ apiKeys \in StartupPools
    /\ currentKeyIndex = 0
    /\ analysis = [a \in Callers |-> NotStarted]
    /\ apiCalls = 0
    /\ probe = NoProbe
    /\ formatted = NoFormat
    /\ budget = NoBudget

NextStartup ==
    \/ SelfValidate
    \/ ProcessExit
    \/ ~Hung /\ Next
    \/ \E p \in Entities : KeyInvalid(p)

SpecStartup == InitStartup /\ [][NextStartup]_vars

\* The process keeps running: a pending continuation is executed, a timer
\* fires, and a synchronous loop goes on with its next iteration.
SpecStartupLive == SpecStartup /\ WF_vars(NextStartup)

\* ------------------------------------------- the pipeline with its engine
\* A library of one unprocessed file.
DiskDoc == (Path(Root, Doc1) :> "d1")

\* The library and the journal the activation finds.
PipelineFiles ==
    { <<DiskDoc, <<>>>>,
      <<DiskDoc, <<OldEntry(Doc1, "FAILURE_AI", NoName)>>>> }

\* The analyze invocation made by the pipeline of entity p: the one file of
\* the library is served by invocation a.
callerOf(p) == "a"

\* The analyze invocation of p's pipeline returned the given result and
\* processEntity has not taken it up yet.
Returned(p, result) ==
    /\ p \in Entities
    /\ task[p].pc = "analyzing"
    /\ analysis[callerOf(p)].pc = "returned"
    /\ analysis[callerOf(p)].result = result

\* runSingleCycle is entered: the invocations of the cycle before are over.
PipelineStartCycle ==
    /\ StartCycle
    /\ analysis' = [a \in Callers |-> NotStarted]
    /\ apiCalls' = 0
    /\ UNCHANGED <<apiKeys, currentKeyIndex, probe, formatted, budget, startup>>

\* processEntity calls cognitionEngine.analyze.
CallAnalyze(p) ==
    /\ Running
    /\ p \in Entities
    /\ task[p].pc = "analyzing"
    /\ Begin(callerOf(p))

InitPipeline ==
    /\ liveMode \in BOOLEAN
    /\ phase = "ready"
    /\ cycle = 0
    /\ \E f \in PipelineFiles : disk = f[1] /\ journal = f[2]
    /\ disk0 = disk
    /\ journal0 = Len(journal)
    /\ previousLength = 0
    /\ journalMemory = <<>>
    /\ task = <<>>
    /\ manifest = {}
    /\ manifestShown = FALSE
    /\ outcome = NoOutcome
    /\ apiKeys \in PoolSizes
    /\ currentKeyIndex \in 0..(apiKeys - 1)
    /\ analysis = [a \in Callers |-> NotStarted]
    /\ apiCalls = 0
    /\ probe = NoProbe
    /\ formatted = NoFormat
    /\ budget = NoBudget
    /\ startup = Validated

NextPipeline ==
    \/ PipelineStartCycle
    \/ \E p \in Entities : Classify(p) /\ EngineUnchanged
    \/ \E p \in Entities : ReadContent(p) /\ EngineUnchanged
    \/ \E p \in Entities : CallAnalyze(p)
    \/ \E p \in Entities : Fetched(callerOf(p))
    \/ \E p \in Entities : Responded(callerOf(p))
    \/ \E p \in Entities : BackoffOver(callerOf(p))
    \/ \E p \in Entities : Returned(p, "null") /\ AnalyzeFailed(p) /\ EngineUnchanged
    \/ \E p \in Entities : Returned(p, "data") /\ Analyzed(p) /\ EngineUnchanged
    \/ \E p \in Entities : Returned(p, "data") /\ ProcessThrew(p) /\ EngineUnchanged
    \/ \E p \in Entities : RenameStep(p) /\ EngineUnchanged
    \/ EndCycle /\ EngineUnchanged
    \/ Cooldown /\ EngineUnchanged
    \/ Deactivate /\ EngineUnchanged

SpecPipeline == InitPipeline /\ [][NextPipeline]_vars

\* ----------------------------------------------------- the replay on its own
\* Lines the journal file can hold: entries of two file names with three
\* statuses.
ReplayEntries ==
    { OldEntry(file, status, NoName) :
        file \in {Doc1, Foo}, status \in {"SUCCESS", "FAILURE_AI", "FAILURE_PARSE"} }

RECURSIVE SeqsUpTo(_, _)
SeqsUpTo(S, n) ==
    IF n = 0 THEN {<<>>}
    ELSE LET shorter == SeqsUpTo(S, n - 1)
         IN  shorter \cup {Append(q, e) : q \in shorter, e \in S}

\* runSingleCycle's call of loadJournalMemory: the journal is read and
\* replayed into the memory; nothing is written.
LoadMemory ==
    /\ phase = "reading"
    /\ journalMemory' = loadJournalMemory(journal)
    /\ phase' = "replayed"
    /\ UNCHANGED <<liveMode, cycle, disk, disk0, journal, journal0,
                   previousLength, task, manifest, manifestShown, outcome>>
    /\ EngineUnchanged

InitReplay ==
    /\ liveMode = TRUE
    /\ phase = "reading"
    /\ cycle = 0
    /\ disk = DiskEmpty
    /\ disk0 = DiskEmpty
    /\ journal \in SeqsUpTo(ReplayEntries, MaxJournal)
    /\ journal0 = Len(journal)
    /\ previousLength = 0
    /\ journalMemory = <<>>
    /\ task = <<>>
    /\ manifest = {}
    /\ manifestShown = FALSE
    /\ outcome = NoOutcome
    /\ EngineIdle

NextReplay == LoadMemory

SpecReplay == InitReplay /\ [][NextReplay]_vars

\* ----------------------------------------------------------------- claims
\* The journal lines that the task of entity p wrote in the current cycle.
writtenBy(p) == {k \in 1..Len(journal) : journal[k].by = p /\ journal[k].cyc = cycle}

looksDone(name) == processedFormatRegex(name) /\ ~hasAbnormallyLongWord(name)

\* The name does not pass as processed and the entry the journal memory holds
\* for the entity is a FAILURE_RENAME with a newName.
RecoverCase(p) ==
    LET prev == previousAttempt(journalMemory, p)
    IN  /\ ~looksDone(p.name)
        /\ prev.status = "FAILURE_RENAME"
        /\ prev.newName # NoName

\* C1: a file whose name does not pass as processed and whose most recent
\* journal entry (the one the journal memory holds for it) is a FAILURE_RENAME
\* with a newName is handed to the rename (or, in a dry run, to the manifest)
\* with exactly that name, and neither its content is read nor the AI called
\* for it in that cycle.
C1_RecoverGoesStraightToRename ==
    \A p \in Entities :
        RecoverCase(p) =>
            /\ task[p].reads = 0
            /\ task[p].aiCalls = 0
            /\ task[p].pc \in {"queued", "renaming", "done"}
            /\ task[p].pc # "queued" =>
                 /\ task[p].to = previousAttempt(journalMemory, p).newName
                 /\ IF liveMode
                    THEN task[p].pc = "renaming" \/ task[p].steps # <<>>
                    ELSE <<p, previousAttempt(journalMemory, p).newName>> \in manifest

\* A recovered file was renamed to the cached name in a live run.
C1_Witness ==
    \E p \in Entities :
        /\ RecoverCase(p)
        /\ liveMode
        /\ task[p].pc = "done"
        /\ task[p].steps = RenameSteps
        /\ ~task[p].failed
        /\ newPathOf(p, previousAttempt(journalMemory, p).newName) \in DOMAIN disk

\* C2: every FAILURE_RENAME entry that LifecycleManager.rename writes carries
\* the target name the failed rename was given, so that the next cycle can
\* reuse it.
C2_FailureRenameCarriesNewName ==
    \A k \in 1..Len(journal) :
        (journal[k].cyc >= 1 /\ journal[k].status = "FAILURE_RENAME") =>
            journal[k].newName # NoName

\* The classifier's first two branches: the name passes as processed, or the
\* entry the journal memory holds for the entity is a SUCCESS.
AlreadyDoneCase(p) ==
    \/ looksDone(p.name)
    \/ previousAttempt(journalMemory, p).status = "SUCCESS"

\* C3: for a file the classifier takes as ALREADY_DONE the pipeline does
\* nothing: no content read, no AI call, no rename step, no planned rename,
\* and no journal line in the cycle other than at most one PROCESSED record.
C3_AlreadyDoneIsNoOp ==
    \A p \in Entities :
        AlreadyDoneCase(p) =>
            /\ task[p].reads = 0
            /\ task[p].aiCalls = 0
            /\ task[p].steps = <<>>
            /\ task[p].to = NoName
            /\ task[p].pc \in {"queued", "done"}
            /\ \A m \in manifest : m[1] # p
            /\ Cardinality(writtenBy(p)) <= 1
            /\ \A k \in writtenBy(p) : journal[k].status = "PROCESSED"

\* A file with an unprocessed name and a SUCCESS entry was skipped silently,
\* beside a file that was not skipped.
C3_Witness ==
    \E p \in Entities :
        /\ ~looksDone(p.name)
        /\ previousAttempt(journalMemory, p).status = "SUCCESS"
        /\ task[p].pc = "done"
        /\ writtenBy(p) = {}
        /\ \E q \in Entities : task[q].aiCalls = 1

\* C4: in a live run, the document that a rename journaled as SUCCESS moved
\* in an earlier cycle is, under its new name, neither read, nor sent to the
\* AI, nor renamed in a later cycle.
C4_RenamedFileStaysDone ==
    \A k \in 1..Len(journal) :
        LET e == journal[k]
            q == newPathOf(e.by, e.newName)
        IN  (/\ liveMode
             /\ e.status = "SUCCESS"
             /\ e.cyc >= 1
             /\ e.cyc < cycle
             /\ q \in Entities
             /\ task[q].doc = e.doc) =>
                /\ task[q].reads = 0
                /\ task[q].aiCalls = 0
                /\ task[q].steps = <<>>

\* C5: every document that was on the disk when the activation started is
\* still on the disk under some path.
C5_NoContentLost ==
    \A p0 \in DOMAIN disk0 : \E q \in DOMAIN disk : disk[q] = disk0[p0]

\* A rename is in flight between the completed backup copy (step 2) and the
\* completed backup deletion (step 4).
InCrashWindow(p) == task[p].pc = "renaming" /\ Len(task[p].steps) \in {2, 3}

\* C6: a crash leaves the disk as it is in the state where it happens, so the
\* claim is about every reachable state inside the window: the content the
\* backup copy took is on the disk, at the original path or at the backup
\* path.
C6_OriginalOrBackupExists ==
    \A p \in Entities :
        InCrashWindow(p) =>
            /\ task[p].saved # NULL
            /\ \/ p \in DOMAIN disk /\ disk[p] = task[p].saved
               \/ backupPath(p) \in DOMAIN disk /\ disk[backupPath(p)] = task[p].saved

\* The rename step moved the original away and only the backup is left.
C6_Witness ==
    \E p \in Entities :
        /\ InCrashWindow(p)
        /\ Len(task[p].steps) = 3
        /\ p \notin DOMAIN disk
        /\ backupPath(p) \in DOMAIN disk

\* C7: a rename that failed at its rename step, at the backup deletion or at
\* the destination verification leaves the backup on the disk.
C7_BackupRetainedOnFailure ==
    \A p \in Entities :
        (task[p].failed /\ Len(task[p].steps) >= 3) =>
            backupPath(p) \in DOMAIN disk

IsPrefix(s, t) == Len(s) <= Len(t) /\ s = SubSeq(t, 1, Len(s))

\* C8: the steps of a rename run in the order verify-source, copy-to-backup,
\* rename, delete-backup, verify-destination; a failed step is the last one
\* and comes with exactly one FAILURE_RENAME line and no SUCCESS line; a
\* SUCCESS line is written only after all five steps, carries the newName,
\* and a rename that completed all five wrote exactly one.
C8_StepsInOrder ==
    \A p \in Entities :
        LET failures == {k \in writtenBy(p) : journal[k].status = "FAILURE_RENAME"}
            successes == {k \in writtenBy(p) : journal[k].status = "SUCCESS"}
        IN  /\ IsPrefix(task[p].steps,
                        <<"access", "copyFile", "rename", "unlink", "accessNew">>)
            /\ task[p].failed =>
                 /\ task[p].pc = "done"
                 /\ Cardinality(failures) = 1
                 /\ successes = {}
            /\ ~task[p].failed => failures = {}
            /\ \A k \in successes :
                 /\ Len(task[p].steps) = 5
                 /\ ~task[p].failed
                 /\ journal[k].newName = task[p].to
                 /\ journal[k].newName # NoName
            /\ (Len(task[p].steps) = 5 /\ ~task[p].failed) => Cardinality(successes) = 1

\* The rename step threw: the two later steps never ran, the original and
\* the backup are both in place.
C8_Witness ==
    \E p \in Entities :
        /\ task[p].failed
        /\ Len(task[p].steps) = 3
        /\ p \in DOMAIN disk
        /\ backupPath(p) \in DOMAIN disk
        /\ \E q \in Entities : Len(task[q].steps) = 5 /\ ~task[q].failed

\* C9: a dry run makes one pass and leaves the disk as it found it: no rename
\* step runs; what it plans is in the manifest, which it prints.
C9_DryRunOnePassNoChange ==
    ~liveMode =>
        /\ disk = disk0
        /\ \A p \in Entities : task[p].steps = <<>> /\ task[p].pc # "renaming"
        /\ cycle <= 1
        /\ phase \in {"introspect", "done"} => cycle = 1
        /\ (phase \in {"introspect", "done"} /\ manifest # {}) => manifestShown

\* A dry run ended with planned renames, printed.
C9_Witness ==
    /\ ~liveMode
    /\ phase = "done"
    /\ manifest # {}
    /\ manifestShown
    /\ \E p \in Entities : task[p].aiCalls = 1 /\ task[p].to # NoName

\* C10: in a live run no rename step runs before the operational manifest
\* was presented (which is what the user is to consent to).
C10_ManifestBeforeRename ==
    \A p \in Entities :
        (liveMode /\ task[p].steps # <<>>) => manifestShown

\* C11: for each cloud model an analyze invocation goes through at most
\* maxRetriesPerModel full rotations of the key pool.
C11_BoundedRotationsPerModel ==
    \A a \in Callers : analysis[a].fullLoops <= maxRetriesPerModel

\* An invocation returned data from a cloud model.
ServedByCloud(a) == analysis[a].result = "data" /\ analysis[a].before >= 0

C13_BackoffAfterFullLoop ==
    \A a \in Callers : ~(analysis[a].pc = "calling" /\ analysis[a].afterLoop)

\* A cycle has returned and no other has started: outcome is what it returned.
CycleOver == cycle >= 1 /\ phase # "running"

\* The file of task p was renamed in the current cycle.
Renamed(p) == task[p].steps = RenameSteps /\ ~task[p].failed

\* The entries the current cycle wrote all have a good status.
AllGood ==
    LET entries == cycleEntries(journal, previousLength)
    IN  \A k \in 1..Len(entries) : entries[k].status \in GoodStatuses

Progress ==
    LET entries == cycleEntries(journal, previousLength)
    IN  \/ \E p \in Entities : Renamed(p)
        \/ \E k \in 1..Len(entries) : entries[k].status \in FailureStatuses

\* C15: in a live run no cycle is started after a cycle that renamed no file
\* and wrote no failure-status entry (a cycle that wrote no entry included).
C15_NoCycleAfterNoProgress ==
    [][(liveMode /\ cycle >= 1 /\ cycle' = cycle + 1) => Progress]_vars
\* C16: a live activation starts at most maxCycles cycles, and whether the
\* loop ends by convergence or at the cap, the activation goes on to the
\* learning step and the report and returns.
C16_AtMostMaxCyclesThenReport ==
    /\ [](cycle <= maxCycles)
    /\ [](phase = "ready" => cycle < maxCycles)
    /\ <>(phase = "done")

\* The loop ran into the cap with work left and the activation completed.
C16_Witness ==
    /\ liveMode
    /\ cycle = maxCycles
    /\ outcome.shouldContinue
    /\ phase = "done"
\* C17: when the pipeline of a file throws, the exception ends in that
\* file's task: the task settles and frees its slot, the cycle has exactly
\* one entry of that file, a FAILURE_AI, and the cycle only returns when every
\* other file has been through its pipeline as well.
C17_ThrowIsContained ==
    \A p \in Entities :
        task[p].threw =>
            /\ task[p].pc = "done"
            /\ p \notin Active
            /\ task[p].steps = <<>>
            /\ Cardinality(writtenBy(p)) = 1
            /\ \A k \in writtenBy(p) : journal[k].status = "FAILURE_AI"
            /\ phase # "running" =>
                  \A q \in Entities \ {p} :
                      /\ task[q].pc = "done"
                      /\ task[q].threw \/ task[q].reads = 1 \/ task[q].to # NoName
                            \/ Cardinality(writtenBy(q)) = 1
                            \/ previousAttempt(journalMemory, q).status = "SUCCESS"

\* One file's pipeline threw and another file of the same cycle was renamed
\* after that.
C17_Witness ==
    \E p, q \in Entities :
        /\ p # q
        /\ task[p].threw
        /\ Renamed(q)
        /\ journal[Len(journal)].by = q

\* C18: a file analysed with a confidence below the threshold is left as it
\* is: no rename is planned or attempted, the AI is not called again for it in
\* the cycle, and the cycle has exactly one entry of it, a SKIPPED_LOW_CONF.
C18_LowConfidenceSkips ==
    \A p \in Entities :
        (task[p].confidence >= 0 /\ task[p].confidence < ConfidenceThreshold) =>
            /\ task[p].pc = "done"
            /\ task[p].steps = <<>>
            /\ task[p].to = NoName
            /\ task[p].aiCalls = 1
            /\ \A m \in manifest : m[1] # p
            /\ Cardinality(writtenBy(p)) = 1
            /\ \A k \in writtenBy(p) : journal[k].status = "SKIPPED_LOW_CONF"

\* A file was skipped for low confidence in a live cycle.
C18_Witness ==
    \E p \in Entities :
        /\ liveMode
        /\ task[p].confidence >= 0
        /\ task[p].confidence < ConfidenceThreshold
        /\ \E k \in writtenBy(p) : journal[k].status = "SKIPPED_LOW_CONF"
        /\ p \in DOMAIN disk
\* C19: a file whose most recent journal entry is SKIPPED_NO_CHANGE is not
\* read and not sent to the AI again, in a later cycle or activation.
C19_NoChangeIsTerminal ==
    \A p \in Entities :
        previousAttempt(journalMemory, p).status = "SKIPPED_NO_CHANGE" =>
            /\ task[p].pc \in {"queued", "done"}
            /\ task[p].reads = 0
            /\ task[p].aiCalls = 0
\* The probed file has been classified.
Classified == probe.result # Unclassified

\* C20: the decision follows the first matching rule of the table: a
\* processed-looking name without an over-long word is ALREADY_DONE with a
\* PROCESSED record whatever the history; otherwise a latest SUCCESS is
\* ALREADY_DONE without a record; otherwise a latest FAILURE_RENAME with a
\* newName is RECOVER with that name; everything else is NEEDS_ANALYSIS.
C20_DecisionTable ==
    Classified =>
        LET done == looksDone(probe.name)
            succeeded == probe.status = "SUCCESS"
            cached == probe.status = "FAILURE_RENAME" /\ probe.newName # NoName
            r == probe.result
        IN  /\ done => (r.kind = "ALREADY_DONE" /\ r.recorded)
            /\ (~done /\ succeeded) => (r.kind = "ALREADY_DONE" /\ ~r.recorded)
            /\ (~done /\ ~succeeded /\ cached) =>
                   (r.kind = "RECOVER" /\ r.newName = probe.newName)
            /\ (~done /\ ~succeeded /\ ~cached) => r.kind = "NEEDS_ANALYSIS"
            /\ r.kind \in {"ALREADY_DONE", "RECOVER", "NEEDS_ANALYSIS"}

\* A processed-looking name was taken as done although its latest entry is a
\* FAILURE_RENAME with a cached name.
C20_Witness ==
    /\ Classified
    /\ looksDone(probe.name)
    /\ probe.status = "FAILURE_RENAME"
    /\ probe.newName # NoName
    /\ probe.result.kind = "ALREADY_DONE"
    /\ probe.result.recorded
\* C21: a name the formatter produced (a non-null, non-empty base name with
\* ".pdf" appended) matches processedFormatRegex.
C21_FormattedNameLooksProcessed ==
    formatted.pc = "classified" => formatted.looksProcessed

\* C22: for an article the formatter returns null unless the analysis has a
\* title, at least one author and a year of exactly four digits.
C22_ArticleNeedsTitleAuthorsYear ==
    (formatted.pc # "idle" /\ formatted.data.documentType = "article"
        /\ ~formatted.baseName.null) =>
            /\ formatted.data.title # NULL
            /\ Len(formatted.data.authors) >= 1
            /\ formatted.data.year # NULL
            /\ IsDigits4(formatted.data.year)
\* The formatter returned a name.
Named == budget.pc = "done" /\ ~budget.result.null

\* C23: whatever the lengths, only the title is shortened: every other part
\* of the returned name holds its formatted field in full.
C23_OnlyTitleShortened ==
    Named =>
        \A i \in 1..Len(budget.result.parts) :
            LET part == budget.result.parts[i]
            IN  part.field # "title" => part.length = part.full

\* C24: the returned name is never longer than maxFilenameLength.
C24_NameWithinMaxLength ==
    Named => joinedLength(budget.result.parts) <= maxFilenameLength

\* A name that had to be cut at the end came out at the maximum length.
C24_Witness ==
    /\ Named
    /\ joinedLength(budget.result.parts) = maxFilenameLength
    /\ \E i \in 1..Len(budget.result.parts) :
           budget.result.parts[i].length < budget.result.parts[i].full
    /\ joinedLength(finalParts(budget).parts) > maxFilenameLength
\* C25: a dry run leaves the operational journal as the activation found it.
C25_DryRunLeavesJournal ==
    ~liveMode => Len(journal) = journal0
\* The process was started without its directory or without any API key.
Unfit == ~startup.directoryExists \/ apiKeys = 0

\* C26: started without its directory or without API keys, the process
\* scans, reads, analyses, renames and journals nothing, and its exit code
\* is not zero.
C26_UnfitStartRefused ==
    Unfit =>
        /\ cycle = 0
        /\ task = <<>>
        /\ disk = disk0
        /\ Len(journal) = journal0
        /\ startup.exitCode # 0
\* The step is the continuation of the call of invocation a.
Acted(a) ==
    /\ analysis[a].pc = "calling"
    /\ \/ analysis'[a].pc # "calling"
       \/ analysis'[a].cycleCount # analysis[a].cycleCount
       \/ analysis'[a].model # analysis[a].model

\* The step handled a transient error of invocation a.
TransientFor(a) == Acted(a) /\ analysis'[a].last \in {"quota", "rate"}

\* The step handled a non-transient error of invocation a.
PermanentFor(a) == Acted(a) /\ analysis'[a].last \in {"empty", "badjson", "permanent"}

\* In the step invocation a took the pool as exhausted for its model: it
\* went to back off or gave the model up.
TookAsExhausted(a) ==
    \/ analysis'[a].pc = "backoff"
    \/ analysis'[a].model # analysis[a].model

\* With the call just answered, invocation a has failed on every key of the
\* pool since its loop began.
FailedOnAll(a) == analysis[a].failed \cup {analysis[a].key} = 0..(apiKeys - 1)

\* C27: with concurrent invocations on the shared cursor, an invocation
\* takes the pool as exhausted for its model exactly when its own calls
\* have failed on every key since its loop began.
C27_ExhaustedIffFailedOnAll ==
    [][\A a \in Callers : TransientFor(a) => (TookAsExhausted(a) <=> FailedOnAll(a))]_vars
\* C28: a transient error that does not bring the cursor back to the start
\* of the invocation's loop moves the shared cursor by one position modulo
\* the pool size, and the invocation calls the same model again with the
\* key at the new cursor.
C28_TransientRotatesAndRetries ==
    [][\A a \in Callers :
         (TransientFor(a) /\ (currentKeyIndex + 1) % apiKeys # analysis[a].startIndexForCycle)
         => /\ currentKeyIndex' = (currentKeyIndex + 1) % apiKeys
            /\ analysis'[a].pc = "calling"
            /\ analysis'[a].model = analysis[a].model
            /\ analysis'[a].key = currentKeyIndex'
            /\ analysis'[a].cycleCount = analysis[a].cycleCount + 1]_vars

C28_Witness ==
    \E a \in Callers :
        /\ analysis[a].pc = "calling"
        /\ analysis[a].last \in {"quota", "rate"}
        /\ analysis[a].cycleCount >= 2
        /\ analysis[a].failed # {}
        /\ analysis[a].key = currentKeyIndex
        /\ analysis[a].key # analysis[a].startIndexForCycle
\* C29: a non-transient error ends the work with the current model at once:
\* the invocation goes on with the next model of the list (or returns null
\* after the last one), the shared cursor stays where it is, and no
\* invocation ever goes back to an earlier model.
C29_PermanentAbandonsModel ==
    [][\A a \in Callers :
         /\ analysis'[a].model >= analysis[a].model
         /\ PermanentFor(a)
            => /\ analysis'[a].model = analysis[a].model + 1
               /\ currentKeyIndex' = currentKeyIndex
               /\ IF analysis[a].model < Len(models)
                  THEN analysis'[a].pc \in {"calling", "fetching"}
                  ELSE analysis'[a].pc = "returned" /\ analysis'[a].result = "null"]_vars

C29_Witness ==
    \E a \in Callers :
        /\ analysis[a].last \in {"empty", "badjson", "permanent"}
        /\ analysis[a].model >= 2
        /\ analysis[a].pc = "calling"
        /\ analysis[a].cycleCount = 1
\* The responses analyze takes as a failure of the model it is trying.
Failures == {"empty", "badjson", "quota", "rate", "permanent", "unfetched"}

\* The invocation of p's pipeline returned null and the pipeline has ended.
GaveUp(p) ==
    /\ task[p].pc = "done"
    /\ analysis[callerOf(p)].pc = "returned"
    /\ analysis[callerOf(p)].result = "null"

\* In every state: data is returned on a successful response of one of the
\* listed models, null with every model of the list behind; a pipeline that
\* ended on null wrote one FAILURE_AI entry and nothing else, planned and
\* made no rename and left its file where it was.
ModelsInOrder_State ==
    \A p \in Entities :
        LET r == analysis[callerOf(p)]
        IN  /\ r.result = "data" => r.last \in {"ok", "fetched"} /\ r.model \in 1..Len(models)
            /\ r.result = "null" => r.model = Len(models) + 1 /\ r.last \in Failures
            /\ Returned(p, "null") => writtenBy(p) = {}
            /\ GaveUp(p) =>
                  /\ Cardinality(writtenBy(p)) = 1
                  /\ \A k \in writtenBy(p) :
                        journal[k].status = "FAILURE_AI" /\ journal[k].file = p.name
                  /\ task[p].to = NoName
                  /\ task[p].steps = <<>>
                  /\ \A planned \in manifest : planned[1] # p
                  /\ p \in DOMAIN disk /\ disk[p] = task[p].doc

\* In every step of an invocation: it starts with the first model, stays
\* with its model or goes to the one after it, goes on only in the step that
\* handles a failed response, and returns the data in the step that handles
\* a successful one.
ModelsInOrder_Step ==
    \A p \in Entities :
        LET r == analysis[callerOf(p)]
            n == analysis'[callerOf(p)]
        IN  \/ n = NotStarted
            \/ /\ r.pc = "idle" => n.model = 1
               /\ n.model \in {r.model, r.model + 1} \/ r.pc = "idle"
               /\ (r.pc # "idle" /\ n.model = r.model + 1)
                     => r.pc \in {"calling", "fetching"} /\ n.last \in Failures
               /\ (r.pc \in {"calling", "fetching"} /\ n # r /\ n.last \in {"ok", "fetched"})
                     => n.pc = "returned" /\ n.result = "data" /\ n.model = r.model
               /\ r.pc = "returned" => n = r

\* C30: analyze tries the models in list order, leaves a model only on a
\* failure, returns at the first successful response and returns null only
\* with every model behind it; the caller then writes exactly one FAILURE_AI
\* entry for the file and attempts no rename.
C30_ModelsInOrderThenFailureAI ==
    []ModelsInOrder_State /\ [][ModelsInOrder_Step]_vars

C30_Witness ==
    \E p \in Entities :
        /\ GaveUp(p)
        /\ liveMode
        /\ journal[Len(journal)].status = "FAILURE_AI"
        /\ journal[Len(journal)].by = p
\* Every earlier call of invocation a's loop failed on a key of its own, the
\* call in flight uses yet another key, and the latest of those failures
\* was a generic rate-limit error: in this loop that key has failed only
\* with a rate-limit error.
RateOnlyKeyInLoop(a) ==
    /\ analysis[a].failed # {}
    /\ Cardinality(analysis[a].failed) = analysis[a].tried - 1
    /\ analysis[a].key \notin analysis[a].failed
    /\ analysis[a].last = "rate"

\* C31: analyze leaves a model for quota exhaustion, without a backoff, only
\* when every key of the loop failed with a quota error; with a key in the
\* loop that failed only with a rate-limit error it backs off and resumes
\* the same model.
C31_QuotaAbandonOnlyIfAllQuota ==
    [][\A a \in Callers :
         (TransientFor(a) /\ TookAsExhausted(a) /\ RateOnlyKeyInLoop(a))
         => analysis'[a].pc = "backoff" /\ analysis'[a].model = analysis[a].model]_vars
\* C32: the backoff base of an exhausted pool is INITIAL_BACKOFF_SEC doubled
\* once for each full rotation the invocation completed before with the
\* model (120 s at the first exhaustion), and never more than
\* MAX_BACKOFF_SEC.
C32_BackoffGrowsWithFullLoops ==
    \A a \in Callers :
        analysis[a].pc = "backoff" =>
            /\ analysis[a].wait = backoffBase(analysis[a].fullLoops)
            /\ analysis[a].wait <= MAX_BACKOFF_SEC
\* The pipeline of p ended where the content is tested: readContent returned
\* null or a text shorter than minTextLength.
ParseFailed(p) == task[p].pc = "done" /\ task[p].reads = 1 /\ task[p].aiCalls = 0

\* A pipeline that ended at the content test wrote one FAILURE_PARSE entry,
\* got no analysis and no new name, and made no rename step.
ParseFailureEndsPipeline ==
    \A p \in Entities :
        ParseFailed(p) =>
            /\ Cardinality(writtenBy(p)) = 1
            /\ \A k \in writtenBy(p) :
                  journal[k].status = "FAILURE_PARSE" /\ journal[k].file = p.name
            /\ task[p].confidence = -1
            /\ task[p].to = NoName
            /\ task[p].steps = <<>>
            /\ \A planned \in manifest : planned[1] # p

\* The cycle after a parse failure of p takes p for analysis again.
ParseFailureAnalysedAgain ==
    \A p \in Entities :
        (ParseFailed(p) /\ cycle' = cycle + 1 /\ p \in DOMAIN task')
        => classify(p.name, previousAttempt(journalMemory', p)).kind = "NEEDS_ANALYSIS"

\* C33: a file whose content cannot be extracted, or is shorter than
\* minTextLength, ends its pipeline with exactly one FAILURE_PARSE entry,
\* without AI call or rename, and is classified NEEDS_ANALYSIS in the next
\* cycle.
C33_ParseFailureStopsAndRetriesNextCycle ==
    []ParseFailureEndsPipeline /\ [][ParseFailureAnalysedAgain]_vars
\* The lines the journal held when the cycle began that were recorded by
\* the pipeline of the file at path p.
ownHistory(p) == {k \in 1..previousLength : journal[k].by = p}

\* The latest of a non-empty set of line numbers.
latest(lines) == CHOOSE k \in lines : \A j \in lines : j <= k

\* C34: for every scanned file, in the root or below it, either no entry
\* was recorded for the file, or the classifier's lookup returns the most
\* recent entry recorded for it.
C34_LookupReturnsOwnLatest ==
    \A p \in Entities :
        \/ ownHistory(p) = {}
        \/ previousAttempt(journalMemory, p) = journal[latest(ownHistory(p))]
\* The file names that occur in the journal.
namesIn(j) == {j[k].file : k \in 1..Len(j)}

\* The number of the last line of j recorded for the file name.
lastLineOf(j, file) ==
    CHOOSE k \in 1..Len(j) : j[k].file = file /\ \A i \in (k + 1)..Len(j) : j[i].file # file

\* After the replay the memory holds, for each file name of the journal and
\* for nothing else, the last line recorded for that name.
LastEntryWins ==
    phase = "replayed" =>
        /\ DOMAIN journalMemory = {resolve(file) : file \in namesIn(journal)}
        /\ \A file \in namesIn(journal) :
              journalMemory[resolve(file)] = journal[lastLineOf(journal, file)]

\* C35: loadJournalMemory maps each file name of the journal to the entry
\* appended last for that name, and the replay leaves the journal as it is.
C35_ReplayKeepsLastEntry ==
    []LastEntryWins /\ [][journal' = journal]_vars

\* A journal replayed in which the first and the last line are of one file
\* name and differ, with a line of another name between them.
C35_Witness ==
    /\ phase = "replayed"
    /\ Len(journal) = 3
    /\ journal[1].file = journal[3].file
    /\ journal[1] # journal[3]
    /\ journal[2].file # journal[3].file
    /\ journalMemory[resolve(journal[3].file)] = journal[3]
\* The current cycle wrote an entry with a failure status.
WroteFailure ==
    \E k \in 1..Len(journal) :
        journal[k].cyc = cycle /\ journal[k].status \in FailureStatuses

\* C36: in a live run the loop waits between a cycle and the next one
\* exactly when the earlier cycle wrote an entry with status FAILURE_PARSE,
\* FAILURE_AI, FAILURE_RENAME or SKIPPED_LOW_CONF; after a cycle without such
\* an entry the loop test is reached without a wait.
C36_CooldownIffFailures ==
    [][(liveMode /\ cycle >= 1) =>
         /\ (phase = "running" /\ phase' = "cooldown") => WroteFailure
         /\ (phase = "running" /\ phase' = "ready") => ~WroteFailure
         /\ (phase = "cooldown" /\ phase' # "cooldown") => WroteFailure /\ cycle' = cycle
         /\ (phase # "ready" /\ phase' = "ready") => phase \in {"running", "cooldown"}]_vars

\* A second live cycle is running after a first one that reported failures.
C36_Witness ==
    /\ liveMode
    /\ cycle = 2
    /\ phase = "running"
    /\ outcome.hasFailures
    /\ \E k \in 1..Len(journal) :
          journal[k].cyc = 1 /\ journal[k].status \in FailureStatuses
\* The step is the one in which the rename of p returns.
RenameReturns(p) ==
    /\ p \in Entities
    /\ task[p].pc = "renaming"
    /\ task'[p].pc = "done"

\* C37: when LifecycleManager.rename returns, the entry it wrote agrees with
\* the disk: with a SUCCESS entry the document is at the destination path
\* and no longer at the source path; with a FAILURE_RENAME entry the
\* document is still at its original path.
C37_EntryAgreesWithDisk ==
    [][\A p \in DOMAIN task :
         RenameReturns(p) =>
            LET entry == journal'[Len(journal')]
                newPath == newPathOf(p, task[p].to)
            IN  /\ entry.by = p
                /\ entry.status \in {"SUCCESS", "FAILURE_RENAME"}
                /\ entry.status = "SUCCESS" =>
                      /\ newPath \in DOMAIN disk'
                      /\ disk'[newPath] = task[p].doc
                      /\ p \notin DOMAIN disk'
                /\ entry.status = "FAILURE_RENAME" =>
                      /\ p \in DOMAIN disk'
                      /\ disk'[p] = task[p].doc]_vars
\* The entry that decides the classification of p in the current cycle was
\* recorded by the pipeline of another file.
ForeignHistory(p) ==
    LET prev == previousAttempt(journalMemory, p)
    IN  /\ prev # NoEntry
        /\ prev.by # NoPath
        /\ prev.by # p

\* C38: an entry recorded for one file never decides the classification of
\* another file; two files of one base name in different directories are
\* each classified from their own history.
C38_OwnHistoryOnly ==
    \A p \in Entities :
        ForeignHistory(p) =>
            classify(p.name, previousAttempt(journalMemory, p)) = classify(p.name, NoEntry)
\* A pipeline is inside analyze with an empty pool.
InAnalyzeWithoutKeys == apiKeys = 0 /\ \E p \in Entities : task[p].pc = "analyzing"

\* C39: with an empty pool analyze still terminates: a pipeline that entered
\* it gets its result and leaves it.
C39_EmptyPoolAnalyzeReturns ==
    InAnalyzeWithoutKeys ~> (\A p \in Entities : task[p].pc # "analyzing")
\* C40: in every cycle each scanned file has at most one journal entry of
\* that cycle, whichever way its pipeline ended.
C40_AtMostOneEntryPerFileAndCycle ==
    \A p \in Entities : Cardinality(writtenBy(p)) <= 1

\* A cycle is over in which one pipeline ended in the catch block of its
\* task and another one in a rename, each with its one entry.
C40_Witness ==
    /\ CycleOver
    /\ \E p, q \in Entities :
          /\ task[p].threw
          /\ task[q].steps # <<>>
          /\ Cardinality(writtenBy(p)) = 1
          /\ Cardinality(writtenBy(q)) = 1
====
